---- MODULE Spec2Model ----
(***************************************************************************)
(* A model of scraper.py: the throttled fetch-with-retry stage             *)
(* (fetch_url, main.fetch_with_semaphore, the batch loop of main) and the  *)
(* page-processing loop of main (find_matches, should_filter_config, the   *)
(* global dedup set and the per-protocol sets).                            *)
(*                                                                         *)
(* Three specifications share the operators below:                         *)
(*   Spec      a whole run of main(): load, fetch in batches, page loop    *)
(*   FetchSpec fetch_url called directly, one call per task                *)
(*   AggSpec   the block 1229-1276 of the page loop applied page after     *)
(*             page to the sets initialised at 1212-1223                   *)
(*                                                                         *)
(* scraper.py uses the module-level names `time` (997, 1138, 1234) and     *)
(* `random` (620) and never imports them.  Whether such a name resolves is *)
(* decided by the interpreter's namespace when the statement runs, so it   *)
(* is an input of the model (timeBound, randomBound): unbound, as the file *)
(* leaves them, the statement raises NameError.                            *)
(***************************************************************************)
EXTENDS Integers, Sequences, FiniteSets, TLC

---------------------------------------------------------------------------
(* Bounds of the model *)

\* most URLs in the URL list of a run checked with the full set of responses
MaxUrls == 2
\* largest max_retries a direct caller of fetch_url passes
MaxRetriesArg == 2
\* most links one page text holds
MaxPageLinks == 2
\* most pages AggSpec feeds to the page loop
MaxPages == 2

---------------------------------------------------------------------------
(* Program constants *)

CONCURRENT_REQUESTS == 10
MAX_CONFIG_LENGTH == 1500
MIN_PERCENT25_COUNT == 15
MAX_PAGE_SIZE == 5 * 1024 * 1024
MAX_TOTAL_CONFIGS == 100000
\* fetch_url(session, url, max_retries=2)
DEFAULT_MAX_RETRIES == 2
FILTERED_PHRASE == "i_love_"

PROTOCOL_CATEGORIES ==
    <<"Vmess", "Vless", "Trojan", "ShadowSocks", "ShadowSocksR",
      "WireGuard", "Tuic", "Hysteria2">>

\* keys in the order of the dict literal
PROTOCOL_KEYS ==
    <<"vmess", "vless", "trojan", "shadowsocks", "shadowsocksr",
      "wireguard", "tuic", "hysteria2">>

PROTOCOL_PREFIXES ==
    [k \in {PROTOCOL_KEYS[i] : i \in 1..Len(PROTOCOL_KEYS)} |->
        CASE k = "vmess" -> <<"vmess://">>
          [] k = "vless" -> <<"vless://">>
          [] k = "trojan" -> <<"trojan://">>
          [] k = "shadowsocks" -> <<"ss://">>
          [] k = "shadowsocksr" -> <<"ssr://">>
          [] k = "wireguard" -> <<"wg://", "wireguard://">>
          [] k = "tuic" -> <<"tuic://">>
          [] OTHER -> <<"hy2://", "hysteria2://">>]

Range(s) == {s[i] : i \in 1..Len(s)}

ProtocolCategorySet == Range(PROTOCOL_CATEGORIES)

\* str.lower() on the strings the model uses
Lower(s) ==
    CASE s = "Vmess" -> "vmess"
      [] s = "Vless" -> "vless"
      [] s = "Trojan" -> "trojan"
      [] s = "ShadowSocks" -> "shadowsocks"
      [] s = "ShadowSocksR" -> "shadowsocksr"
      [] s = "WireGuard" -> "wireguard"
      [] s = "Tuic" -> "tuic"
      [] s = "Hysteria2" -> "hysteria2"
      [] s = "VMESS://" -> "vmess://"
      [] s = "VLESS://" -> "vless://"
      [] s = "Trojan://" -> "trojan://"
      [] s = "I_Love_" -> "i_love_"
      [] s = "US" -> "us"
      [] s = "DE" -> "de"
      [] s = "Germany" -> "germany"
      [] OTHER -> s

---------------------------------------------------------------------------
(* Links.  A link string is a record of what the program inspects in it:   *)
(*   scheme   the text up to and including "://", as written               *)
(*   blank    nothing but whitespace follows the scheme                    *)
(*   hasAt    the string contains '@'                                      *)
(*   phrase   the part of the string that reads i_love_ when case is       *)
(*            ignored, as written; "" when there is none                   *)
(*   pct25    occurrences of "%25"                                         *)
(*   length   len() of the stripped string                                 *)
(*   n        how many distinct strings of exactly this shape the record   *)
(*            stands for; the program treats them alike one by one, and    *)
(*            len() of a set counts them all                               *)

\* A name carried by a link, by what keyword matching can see of it: the
\* lower-case words between its non-alphabetic characters, and the
\* lower-cased keywords of the run that occur in it as substrings
Name(tokens, subs) == [empty |-> FALSE, tokens |-> tokens, subs |-> subs]
NoName == [empty |-> TRUE, tokens |-> {}, subs |-> {}]
\* "GermanyNode", "US-Node-1", "Austria", "US-Germany", "Ignored"
GermanyNode == Name({"germanynode"}, {"germany", "de"})
USNode1 == Name({"us", "node"}, {"us", "de"})
Austria == Name({"austria"}, {"us"})
USGermany == Name({"us", "germany"}, {"us", "germany"})
Ignored == Name({"ignored"}, {})

Link(id, scheme, blank, hasAt, phrase, pct25, length, n) ==
    [id |-> id, scheme |-> scheme, blank |-> blank, hasAt |-> hasAt,
     phrase |-> phrase, pct25 |-> pct25, length |-> length, n |-> n,
     hasFrag |-> FALSE, frag |-> NoName, field |-> NoName]

\* the link l with '#' and the text after it (hasFrag, frag), and with the
\* name its protocol-specific field holds (field)
Named(l, hasFrag, frag, field) ==
    [l EXCEPT !.hasFrag = hasFrag, !.frag = frag, !.field = field]

LinkUniverse ==
    { Named(Link(1, "vmess://", FALSE, FALSE, "", 0, 40, 1), FALSE, NoName, USGermany),
      Named(Link(2, "vless://", FALSE, TRUE, "", 0, 60, 1), TRUE, GermanyNode, Ignored),
      Link(3, "trojan://", FALSE, FALSE, "", 0, 30, 1),
      Link(4, "vmess://", FALSE, FALSE, "i_love_", 0, 50, 1),
      Link(5, "VLESS://", FALSE, TRUE, "", 0, 60, 1),
      Link(6, "vless://", FALSE, TRUE, "", 0, 80, 60000),
      Named(Link(7, "vmess://", FALSE, FALSE, "", 0, 90, 60000), FALSE, NoName, Austria),
      Named(Link(8, "trojan://", FALSE, TRUE, "I_Love_", 0, 70, 1), TRUE, USNode1, NoName) }

RECURSIVE SumN(_)
\* len() of a set of link strings
SumN(S) ==
    IF S = {} THEN 0
    ELSE LET l == CHOOSE x \in S : TRUE IN l.n + SumN(S \ {l})

\* A text: what str it is, and the link strings that occur in it
EmptyText == [chars |-> "empty", links |-> {}]
BlankText == [chars |-> "blank", links |-> {}]
TextOf(S) == [chars |-> "text", links |-> S]

PageTexts == {TextOf(S) : S \in {T \in SUBSET LinkUniverse : Cardinality(T) <= MaxPageLinks}}

\* `not text` and `text.strip()` being empty
IsEmptyStr(t) == t.chars = "empty"
IsBlankStr(t) == t.chars \in {"empty", "blank"}

---------------------------------------------------------------------------
(* should_filter_config *)

\* [prefix for prefix_list in PROTOCOL_PREFIXES.values() for prefix in prefix_list]
AllProtocolPrefixes ==
    UNION {Range(PROTOCOL_PREFIXES[k]) : k \in DOMAIN PROTOCOL_PREFIXES}

\* the protocol_validation table: TRUE when the validator rejects
ProtocolValidationFails(prefix, c) ==
    IF prefix = "trojan://" THEN ~c.hasAt ELSE c.blank

\* the phrase is looked for in the string as written
should_filter_config_CaseSensitive(c) ==
    \/ c.length = 0
    \/ c.phrase = FILTERED_PHRASE
    \/ c.pct25 >= MIN_PERCENT25_COUNT * 2
    \/ c.length >= MAX_CONFIG_LENGTH * 2
    \/ Lower(c.scheme) \notin AllProtocolPrefixes
    \/ ProtocolValidationFails(Lower(c.scheme), c)

should_filter_config(c) ==
    \/ c.length = 0
    \/ Lower(c.phrase) = FILTERED_PHRASE
    \/ c.pct25 >= MIN_PERCENT25_COUNT * 2
    \/ c.length >= MAX_CONFIG_LENGTH * 2
    \/ Lower(c.scheme) \notin AllProtocolPrefixes
    \/ ProtocolValidationFails(Lower(c.scheme), c)

---------------------------------------------------------------------------
(* keywords.json and find_matches.  An entry of a pattern list is a record:*)
(*   str      it is a string                                               *)
(*   blank    it is empty or whitespace                                    *)
(*   regexOk  re.compile accepts it                                        *)
(*   schemes  the lower-case schemes of the links its regex captures       *)
(*            (compiled with re.IGNORECASE)                                *)
(*   kw       for a country keyword: the keyword as written                *)
(*   abbrev   for a country keyword: it is 2 or 3 upper-case letters       *)

Pattern(schemes) ==
    [str |-> TRUE, blank |-> FALSE, regexOk |-> TRUE, schemes |-> schemes,
     kw |-> "", abbrev |-> FALSE]
BadRegex == [Pattern({}) EXCEPT !.regexOk = FALSE]
BlankEntry == [Pattern({}) EXCEPT !.blank = TRUE]
\* a country keyword: as a regex it captures no link
Keyword(kw, abbrev) == [Pattern({}) EXCEPT !.kw = kw, !.abbrev = abbrev]

\* PROTOCOL_REGEX_PATTERNS[protocol].findall(text): case-sensitive
BuiltinFindall(protocol, text) ==
    {l \in text.links : l.scheme \in Range(PROTOCOL_PREFIXES[protocol])}

\* pattern.findall(text) of one custom pattern, stripped items
CustomFindall(pat, text) ==
    IF pat.str /\ ~pat.blank /\ pat.regexOk
    THEN {l \in text.links : Lower(l.scheme) \in pat.schemes}
    ELSE {}

\* step 1: the pre-compiled patterns, for the protocols that are keys of
\* categories_data (an empty findall leaves no entry: the KeyError of
\* matches[protocol].update is swallowed)
QuickMatches(text, categories_data) ==
    LET ks == {p \in Range(PROTOCOL_KEYS) :
                  p \in DOMAIN categories_data /\ BuiltinFindall(p, text) # {}}
    IN [p \in ks |-> BuiltinFindall(p, text)]

\* step 2: the custom patterns of one category
CategoryMatches(category, text, categories_data, quick) ==
    LET patterns == categories_data[category]
    IN IF Len(patterns) = 0 THEN {}
       ELSE IF category \in DOMAIN quick /\ quick[category] # {} /\ Len(patterns) > 3
       THEN {}
       ELSE UNION {CustomFindall(patterns[i], text) : i \in 1..Len(patterns)}

\* step 3 is left out
CleanCategory_KeepsAll(category, configs) == configs

\* step 3: a category whose lower-cased name is a key of PROTOCOL_PREFIXES
\* keeps the strings that start with one of its prefixes
CleanCategory(category, configs) ==
    IF Lower(category) \in DOMAIN PROTOCOL_PREFIXES
    THEN {c \in configs : c.scheme \in Range(PROTOCOL_PREFIXES[Lower(category)])}
    ELSE configs

find_matches(text, categories_data) ==
    IF IsEmptyStr(text) THEN <<>>
    ELSE
    LET quick == QuickMatches(text, categories_data)
        custom == [c \in DOMAIN categories_data |->
                      CategoryMatches(c, text, categories_data, quick)]
        keys == DOMAIN quick \cup {c \in DOMAIN categories_data : custom[c] # {}}
        merged == [c \in keys |->
                      (IF c \in DOMAIN quick THEN quick[c] ELSE {})
                      \cup (IF c \in DOMAIN categories_data THEN custom[c] ELSE {})]
    IN [c \in keys |-> CleanCategory(c, merged[c])]

\* keywords.json as parsed: key -> [isList, items]
RawValue(isList, items) == [isList |-> isList, items |-> items]

\* lines 1068-1091: missing protocol categories get [], non-list values are
\* dropped, entries that are not non-blank strings are dropped, and a
\* category whose list is then empty is dropped
KeepEntry(e) == e.str /\ ~e.blank
ValidCategoriesData(raw) ==
    LET withMissing ==
            [k \in DOMAIN raw \cup ProtocolCategorySet |->
                IF k \in DOMAIN raw THEN raw[k] ELSE RawValue(TRUE, <<>>)]
        kept == {k \in DOMAIN withMissing :
                    withMissing[k].isList
                    /\ SelectSeq(withMissing[k].items, KeepEntry) # <<>>}
    IN [k \in kept |-> SelectSeq(withMissing[k].items, KeepEntry)]

\* lines 1109-1115
ProtocolPatternsForMatching(categories_data) ==
    [c \in DOMAIN categories_data \cap ProtocolCategorySet |-> categories_data[c]]
CountryKeywordsForNaming(categories_data) ==
    [c \in DOMAIN categories_data \ ProtocolCategorySet |-> categories_data[c]]

\* {"Vless": [], "Germany": ["DE", "Germany"]}
VlessEmptyGermany ==
    ("Vless" :> RawValue(TRUE, <<>>))
      @@ ("Germany" :> RawValue(TRUE, <<Keyword("DE", TRUE), Keyword("Germany", FALSE)>>))

\* the keyword files the model is run with
RawConfigs ==
    { ("Vmess" :> RawValue(TRUE, <<Pattern({"vmess://"})>>))
        @@ ("Vless" :> RawValue(TRUE, <<Pattern({"vless://"}), BlankEntry>>))
        @@ ("Trojan" :> RawValue(TRUE, <<Pattern({"trojan://"})>>))
        @@ ("Germany" :> RawValue(TRUE, <<Keyword("DE", TRUE), Keyword("Germany", FALSE)>>))
        @@ ("UnitedStates" :> RawValue(TRUE, <<Keyword("US", TRUE)>>)),
      ("Vmess" :> RawValue(TRUE, <<Pattern({"vmess://", "vless://"})>>))
        @@ ("Vless" :> RawValue(TRUE, <<BadRegex, Pattern({"vless://", "vmess://", "trojan://"})>>))
        @@ ("Tuic" :> RawValue(TRUE, <<>>))
        @@ ("Note" :> RawValue(FALSE, <<>>)),
      VlessEmptyGermany }

---------------------------------------------------------------------------
(* fetch_url *)

\* A url argument: whether it is a str, and the scheme it starts with
\* ("" for the empty string)
Url(str, scheme, host) == [str |-> str, scheme |-> scheme, host |-> host]

\* any non-empty string passes
ValidUrl_AnyScheme(url) == url.str /\ url.scheme # ""

\* line 515
ValidUrl(url) ==
    url.str /\ url.scheme # "" /\ url.scheme \in {"http://", "https://"}

\* What one session.get attempt meets.  kind "timeout" and "client_error"
\* are the exceptions of 606-611; kind "http" is a response:
\*   status, clen (Content-Length: -1 absent, -2 not an integer),
\*   bodyChars (size of the body), readOk (the body read returns),
\*   text (what the body read returns)
NoResponse == [kind |-> "none", status |-> 0, clen |-> -1, bodyChars |-> 0,
               readOk |-> FALSE, text |-> EmptyText]
Failure(kind) == [NoResponse EXCEPT !.kind = kind]
Http(status, clen, bodyChars, readOk, text) ==
    [kind |-> "http", status |-> status, clen |-> clen, bodyChars |-> bodyChars,
     readOk |-> readOk, text |-> text]

\* texts the servers of the model hand out
ServedTexts ==
    { TextOf({l \in LinkUniverse : l.id \in {1, 2}}),
      TextOf({l \in LinkUniverse : l.id = 2}),
      TextOf({l \in LinkUniverse : l.id \in {2, 3}}),
      TextOf({l \in LinkUniverse : l.id \in {6, 7}}),
      TextOf({}) }

OversizeChars == MAX_PAGE_SIZE + 1

HttpResponses ==
    { Http(st, cl, bc, ok, tx) :
        st \in {200, 404}, cl \in {-1, -2, 100, OversizeChars},
        bc \in {0, 100, OversizeChars}, ok \in BOOLEAN,
        tx \in ServedTexts \cup {EmptyText, BlankText} }

\* the body and the text read from it agree
WellFormed(r) ==
    /\ r.clen \in {-1, -2, r.bodyChars}
    /\ IF r.readOk THEN (r.bodyChars = 0) = (r.text = EmptyText)
                   ELSE r.text = EmptyText

Responses(profile) ==
    CASE profile = "full" ->
            {Failure("timeout"), Failure("client_error")}
            \cup {r \in HttpResponses : WellFormed(r)}
      [] profile = "basic" ->
            {Failure("timeout"),
             Http(200, -1, 100, TRUE, TextOf({})),
             Http(500, -1, 0, TRUE, EmptyText)}
            \cup {Http(404, -1, 100, TRUE, tx) : tx \in ServedTexts}
      [] OTHER ->
            {Http(404, -1, 100, TRUE, TextOf({}))}

Is2xx(r) == r.kind = "http" /\ r.status >= 200 /\ r.status < 300

\* the Content-Length test is left out
DeclaredTooLarge_Off(r) == FALSE

\* lines 542-549
DeclaredTooLarge(r) == r.clen >= 0 /\ r.clen > MAX_PAGE_SIZE

\* a non-2xx response without a usable body ends the call: return url, None
AttemptResult_ErrorBodyFails(r) ==
    IF r.kind # "http" THEN [ret |-> "fall", text |-> EmptyText]
    ELSE IF r.status >= 200 /\ r.status < 300
    THEN IF r.clen >= 0 /\ r.clen > MAX_PAGE_SIZE
         THEN [ret |-> "absent", text |-> EmptyText]
         ELSE [ret |-> "fall", text |-> EmptyText]
    ELSE IF r.readOk /\ ~IsBlankStr(r.text)
         THEN [ret |-> "content", text |-> r.text]
         ELSE [ret |-> "absent", text |-> EmptyText]

\* One pass of the loop body 532-614: what the pass returns, or "fall"
\* when control reaches line 616.  A 2xx body is read into text_content
\* and no return follows it (540-593); a non-2xx body is returned when it
\* is not blank (598-602).
AttemptResult(r) ==
    IF r.kind # "http" THEN [ret |-> "fall", text |-> EmptyText]
    ELSE IF Is2xx(r)
    THEN IF DeclaredTooLarge(r)
         THEN [ret |-> "absent", text |-> EmptyText]
         ELSE [ret |-> "fall", text |-> EmptyText]
    ELSE IF r.readOk /\ ~IsBlankStr(r.text)
         THEN [ret |-> "content", text |-> r.text]
         ELSE [ret |-> "fall", text |-> EmptyText]

Min(a, b) == IF a < b THEN a ELSE b
Max(a, b) == IF a > b THEN a ELSE b

\* line 620 without the jitter: whole seconds of min(2 ** retry_count + u, 10)
BackoffSeconds(retry_count) == Min(2 ^ retry_count, 10)

Result(kind, text) == [kind |-> kind, text |-> text]
NoResult == Result("none", EmptyText)
Absent == Result("absent", EmptyText)
\* an exception leaves fetch_url
Raised == Result("raised", EmptyText)

\* A call of fetch_url
NewTask(url, max_retries) ==
    [pc |-> "new", url |-> url, max_retries |-> max_retries, retry_count |-> 0,
     attempts |-> 0, delays |-> 0, slept |-> 0, result |-> NoResult]

\* lines 515-519: up to the first session.get
FetchUrlEntry(task) ==
    IF ValidUrl(task.url)
    THEN [task EXCEPT !.pc = "attempt"]
    ELSE [task EXCEPT !.pc = "done", !.result = Absent]

\* the loop test admits one attempt more: retry_count <= max_retries + 1
RetryStep_OneMore(task, rndBound) ==
    LET rc == task.retry_count + 1 IN
    IF rc <= task.max_retries + 1
    THEN IF rndBound
         THEN [task EXCEPT !.retry_count = rc, !.pc = "sleep",
                           !.delays = @ + 1, !.slept = @ + Min(2 ^ rc, 10)]
         ELSE [task EXCEPT !.retry_count = rc, !.pc = "done",
                           !.result = [kind |-> "raised", text |-> EmptyText]]
    ELSE [task EXCEPT !.retry_count = rc, !.pc = "done",
                      !.result = [kind |-> "absent", text |-> EmptyText]]

\* lines 616-625: after a pass that did not return
RetryStep(task, rndBound) ==
    LET rc == task.retry_count + 1 IN
    IF rc <= task.max_retries
    THEN IF rndBound
         THEN [task EXCEPT !.retry_count = rc, !.pc = "sleep",
                           !.delays = @ + 1, !.slept = @ + BackoffSeconds(rc)]
         ELSE [task EXCEPT !.retry_count = rc, !.pc = "done", !.result = Raised]
    ELSE [task EXCEPT !.retry_count = rc, !.pc = "done", !.result = Absent]

\* lines 531-625: one attempt meeting response r, up to the next await
FetchUrlAttempt(task, r, rndBound) ==
    LET out == AttemptResult(r)
        t1 == [task EXCEPT !.attempts = @ + 1]
    IN CASE out.ret = "content" ->
                [t1 EXCEPT !.pc = "done", !.result = Result("content", out.text)]
         [] out.ret = "absent" ->
                [t1 EXCEPT !.pc = "done", !.result = Absent]
         [] OTHER -> RetryStep(t1, rndBound)

\* line 622 returns: the loop tests retry_count <= max_retries again
FetchUrlWake(task) == [task EXCEPT !.pc = "attempt"]

---------------------------------------------------------------------------
(* State *)

VARIABLES
    timeBound,            \* the name `time` resolves
    randomBound,          \* the name `random` resolves
    netProfile,           \* which responses the network of this run gives
    inputs,               \* state of urls.txt and keywords.json on disk
    rawKeywords,          \* keywords.json as parsed
    urlCount,             \* valid, distinct URL lines of urls.txt
    mainPc,               \* where main() stands
    urls,                 \* main: urls
    categories_data,      \* main: categories_data after validation
    tasks,                \* the fetch_url calls, by index of the URL
    history,              \* per direct call: the kind of response each attempt met
    last,                 \* per direct call: the response its latest attempt met
    semValue,             \* free permits of sem
    batchStart,           \* main: i of the batch loop
    filtered_pages,       \* main: filtered_pages / fetched_pages
    success_count,        \* main: success_count
    page_idx,             \* pages taken from fetched_pages so far
    page_matches,         \* categories of page_protocol_matches not yet iterated
    curCat,               \* protocol_cat_name of the running iteration, or ""
    todo,                 \* configs_found not yet iterated
    valid_configs,        \* main: valid_configs
    page_found_count,     \* main: page_found_count
    page_filtered_count,  \* main: page_filtered_count
    global_config_set,    \* main: global_config_set
    final_all_protocols,  \* main: final_all_protocols
    final_configs_by_country, \* main: final_configs_by_country
    found_configs,        \* main: found_configs
    filtered_out_configs, \* main: filtered_out_configs
    processed_pages,      \* main: processed_pages
    written,              \* category -> items handed to save_to_file
    skipped,              \* configs that met line 1261 (already in global_config_set)
    rejected              \* configs that met line 1269 (should_filter_config was true)

envVars == <<timeBound, randomBound, netProfile, inputs, rawKeywords, urlCount>>
fetchVars == <<tasks, history, last, semValue, batchStart, filtered_pages, success_count>>
loopVars == <<page_idx, page_matches, curCat, todo, valid_configs,
              page_found_count, page_filtered_count>>
aggVars == <<global_config_set, final_all_protocols, final_configs_by_country,
             found_configs, filtered_out_configs, processed_pages>>
vars == <<envVars, mainPc, urls, categories_data, fetchVars, loopVars, aggVars,
          written, skipped, rejected>>

\* the URL list of a run with more URLs than one batch and one semaphore hold
LargeUrls == 30

InputStates == {"ok", "missing", "unreadable", "bad_json", "not_dict"}

\* line 1130
DynamicConcurrency(n) == Min(CONCURRENT_REQUESTS, Max(5, n \div 10))
\* line 1170
BatchSize(n) == Min(20, Max(5, n \div 5))

\* lines 1212-1223
EmptyProtocols == [c \in ProtocolCategorySet |-> {}]
EmptyCountries(cd) == [c \in DOMAIN CountryKeywordsForNaming(cd) |-> {}]

InitCommon ==
    /\ history = <<>>
    /\ last = <<>>
    /\ batchStart = 0
    /\ filtered_pages = <<>>
    /\ success_count = 0
    /\ page_idx = 0
    /\ page_matches = <<>>
    /\ curCat = ""
    /\ todo = {}
    /\ valid_configs = {}
    /\ page_found_count = 0
    /\ page_filtered_count = 0
    /\ global_config_set = {}
    /\ final_all_protocols = EmptyProtocols
    /\ found_configs = 0
    /\ filtered_out_configs = 0
    /\ processed_pages = 0
    /\ written = <<>>
    /\ skipped = {}
    /\ rejected = {}

\* main() is about to run
Init ==
    /\ timeBound \in BOOLEAN
    /\ randomBound \in BOOLEAN
    /\ inputs \in InputStates
    /\ rawKeywords \in RawConfigs
    /\ \/ urlCount \in 0..MaxUrls /\ netProfile = "basic"
       \/ urlCount = LargeUrls /\ netProfile = "errpage"
    /\ mainPc = "start"
    /\ urls = <<>>
    /\ categories_data = <<>>
    /\ tasks = <<>>
    /\ semValue = 0
    /\ final_configs_by_country = <<>>
    /\ InitCommon

---------------------------------------------------------------------------
(* main(): loading, lines 997-1131 *)

\* urls.txt lines that pass 1039-1042, after dict.fromkeys
LoadedUrls(n) == [i \in 1..n |-> Url(TRUE, "http://", i)]

\* the state of the input files is not looked at
MainStart_NoInputCheck ==
    /\ mainPc = "start"
    /\ IF ~timeBound
       THEN /\ mainPc' = "crashed"
            /\ UNCHANGED <<urls, categories_data, tasks, semValue>>
       ELSE IF urlCount = 0 \/ DOMAIN ValidCategoriesData(rawKeywords) = {}
       THEN /\ mainPc' = "aborted"
            /\ UNCHANGED <<urls, categories_data, tasks, semValue>>
       ELSE /\ mainPc' = "fetch"
            /\ urls' = LoadedUrls(urlCount)
            /\ categories_data' = ValidCategoriesData(rawKeywords)
            /\ tasks' = [i \in 1..urlCount |->
                            NewTask(LoadedUrls(urlCount)[i], DEFAULT_MAX_RETRIES)]
            /\ semValue' = DynamicConcurrency(urlCount)
    /\ UNCHANGED <<envVars, history, last, batchStart, filtered_pages,
                   success_count, loopVars, aggVars, written, skipped, rejected>>

MainStart ==
    /\ mainPc = "start"
    /\ IF ~timeBound
       THEN \* line 997: NameError
            /\ mainPc' = "crashed"
            /\ UNCHANGED <<urls, categories_data, tasks, semValue>>
       ELSE IF inputs # "ok" \/ urlCount = 0
                \/ DOMAIN ValidCategoriesData(rawKeywords) = {}
       THEN \* the returns of 1021, 1026, 1029, 1048, 1061, 1066, 1095
            /\ mainPc' = "aborted"
            /\ UNCHANGED <<urls, categories_data, tasks, semValue>>
       ELSE /\ mainPc' = "fetch"
            /\ urls' = LoadedUrls(urlCount)
            /\ categories_data' = ValidCategoriesData(rawKeywords)
            /\ tasks' = [i \in 1..urlCount |->
                            NewTask(LoadedUrls(urlCount)[i], DEFAULT_MAX_RETRIES)]
            /\ semValue' = DynamicConcurrency(urlCount)
    /\ UNCHANGED <<envVars, history, last, batchStart, filtered_pages,
                   success_count, loopVars, aggVars, written, skipped, rejected>>

---------------------------------------------------------------------------
(* main(): the batch loop, lines 1166-1209 *)

BatchOf(i, n) == {j \in 1..n : i < j /\ j <= i + BatchSize(n)}

\* line 1175-1185: the tasks of the next batch are created and gathered
StartBatch ==
    /\ mainPc \in {"fetch", "pause"}
    /\ tasks' = [j \in DOMAIN tasks |->
                    IF j \in BatchOf(batchStart, Len(urls))
                    THEN [tasks[j] EXCEPT !.pc = "queued"] ELSE tasks[j]]
    /\ mainPc' = "gather"
    /\ UNCHANGED <<envVars, urls, categories_data, history, last, semValue,
                   batchStart, filtered_pages, success_count, loopVars, aggVars,
                   written, skipped, rejected>>

\* fetch_with_semaphore turns an exception of fetch_url into (url, None)
\* (1147-1149)
Guarded(task) ==
    IF task.result.kind = "raised" THEN [task EXCEPT !.result = Absent] ELSE task

\* the permit stays with the task that is over
PermitsAfter_Kept(task, held) == held

\* the permit is given back when the task is over (end of `async with sem`)
PermitsAfter(task, held) == IF task.pc = "done" THEN held + 1 ELSE held

\* the task does not wait for a permit
Acquire_NoPermit(t) ==
    /\ mainPc = "gather"
    /\ tasks[t].pc = "queued"
    /\ LET entered == IF timeBound THEN FetchUrlEntry(tasks[t])
                      ELSE [tasks[t] EXCEPT !.pc = "done", !.result = Absent]
       IN /\ tasks' = [tasks EXCEPT ![t] = entered]
          /\ semValue' = PermitsAfter(entered, semValue - 1)
    /\ UNCHANGED <<envVars, mainPc, urls, categories_data, history, last,
                   batchStart, filtered_pages, success_count, loopVars, aggVars,
                   written, skipped, rejected>>

\* lines 1135-1139 and 515-531: the permit is taken, the clock is read,
\* fetch_url starts
Acquire(t) ==
    /\ mainPc = "gather"
    /\ tasks[t].pc = "queued"
    /\ semValue > 0
    /\ LET entered == IF timeBound THEN FetchUrlEntry(tasks[t])
                      ELSE [tasks[t] EXCEPT !.pc = "done", !.result = Absent]
       IN /\ tasks' = [tasks EXCEPT ![t] = entered]
          /\ semValue' = PermitsAfter(entered, semValue - 1)
    /\ UNCHANGED <<envVars, mainPc, urls, categories_data, history, last,
                   batchStart, filtered_pages, success_count, loopVars, aggVars,
                   written, skipped, rejected>>

\* one attempt of a task that holds a permit
SemAttempt(t) ==
    /\ mainPc = "gather"
    /\ tasks[t].pc = "attempt"
    /\ \E r \in Responses(netProfile) :
         LET after == Guarded(FetchUrlAttempt(tasks[t], r, randomBound))
         IN /\ tasks' = [tasks EXCEPT ![t] = after]
            /\ semValue' = PermitsAfter(after, semValue)
    /\ UNCHANGED <<envVars, mainPc, urls, categories_data, history, last,
                   batchStart, filtered_pages, success_count, loopVars, aggVars,
                   written, skipped, rejected>>

\* the backoff sleep of a task ends
Wake(t) ==
    /\ tasks[t].pc = "sleep"
    /\ tasks' = [tasks EXCEPT ![t] = FetchUrlWake(tasks[t])]
    /\ UNCHANGED <<envVars, mainPc, urls, categories_data, history, last,
                   semValue, batchStart, filtered_pages, success_count, loopVars,
                   aggVars, written, skipped, rejected>>

RECURSIVE PagesOf(_, _, _)
\* lines 1188-1198: the results with content, in the order of batch_urls
PagesOf(ts, lo, hi) ==
    IF lo > hi THEN <<>>
    ELSE (IF ts[lo].result.kind = "content"
          THEN <<[url |-> ts[lo].url, text |-> ts[lo].result.text]>> ELSE <<>>)
         \o PagesOf(ts, lo + 1, hi)

\* filtered_pages is started afresh for every batch
CollectBatch_KeepsLastBatch ==
    /\ mainPc = "gather"
    /\ \A j \in BatchOf(batchStart, Len(urls)) : tasks[j].pc = "done"
    /\ LET n == Len(urls)
           hi == Min(batchStart + BatchSize(n), n)
           got == PagesOf(tasks, batchStart + 1, hi)
       IN /\ filtered_pages' = got
          /\ success_count' = success_count + Len(got)
          /\ IF batchStart + BatchSize(n) < n
             THEN /\ mainPc' = "pause"
                  /\ batchStart' = batchStart + BatchSize(n)
                  /\ UNCHANGED final_configs_by_country
             ELSE /\ mainPc' = "pages"
                  /\ batchStart' = batchStart
                  /\ final_configs_by_country' = EmptyCountries(categories_data)
    /\ UNCHANGED <<envVars, urls, categories_data, tasks, history, last,
                   semValue, loopVars, global_config_set, final_all_protocols, found_configs,
                   filtered_out_configs, processed_pages, written, skipped, rejected>>

\* the results are collected while tasks of the batch still run
CollectBatch_NoWait ==
    /\ mainPc = "gather"
    /\ LET n == Len(urls)
           hi == Min(batchStart + BatchSize(n), n)
           got == PagesOf(tasks, batchStart + 1, hi)
       IN /\ filtered_pages' = filtered_pages \o got
          /\ success_count' = success_count + Len(got)
          /\ IF batchStart + BatchSize(n) < n
             THEN /\ mainPc' = "pause"
                  /\ batchStart' = batchStart + BatchSize(n)
                  /\ UNCHANGED final_configs_by_country
             ELSE /\ mainPc' = "pages"
                  /\ batchStart' = batchStart
                  /\ final_configs_by_country' = EmptyCountries(categories_data)
    /\ UNCHANGED <<envVars, urls, categories_data, tasks, history, last,
                   semValue, loopVars, global_config_set, final_all_protocols, found_configs,
                   filtered_out_configs, processed_pages, written, skipped, rejected>>

\* gather returns; lines 1188-1223
CollectBatch ==
    /\ mainPc = "gather"
    /\ \A j \in BatchOf(batchStart, Len(urls)) : tasks[j].pc = "done"
    /\ LET n == Len(urls)
           hi == Min(batchStart + BatchSize(n), n)
           got == PagesOf(tasks, batchStart + 1, hi)
       IN /\ filtered_pages' = filtered_pages \o got
          /\ success_count' = success_count + Len(got)
          /\ IF batchStart + BatchSize(n) < n
             THEN /\ mainPc' = "pause"
                  /\ batchStart' = batchStart + BatchSize(n)
                  /\ UNCHANGED final_configs_by_country
             ELSE /\ mainPc' = "pages"
                  /\ batchStart' = batchStart
                  /\ final_configs_by_country' = EmptyCountries(categories_data)
    /\ UNCHANGED <<envVars, urls, categories_data, tasks, history, last,
                   semValue, loopVars, global_config_set, final_all_protocols, found_configs,
                   filtered_out_configs, processed_pages, written, skipped, rejected>>

---------------------------------------------------------------------------
(* main(): the page loop, lines 1229-1291 *)

\* line 1248
TotalCurrentConfigs(protocols) ==
    LET RECURSIVE Sum(_)
        Sum(C) == IF C = {} THEN 0
                  ELSE LET c == CHOOSE x \in C : TRUE
                       IN SumN(protocols[c]) + Sum(C \ {c})
    IN Sum(DOMAIN protocols)

\* line 1249: the page is not aggregated and the loop is left
BudgetReached(protocols) == TotalCurrentConfigs(protocols) >= MAX_TOTAL_CONFIGS

\* lines 1230-1251 for the page text `text`; `next` is where an iteration
\* that ends at once (continue) leaves main
TakePage(text) ==
    IF IsEmptyStr(text)
    THEN \* line 1231: continue
         /\ UNCHANGED <<mainPc, processed_pages, page_matches,
                        page_found_count, page_filtered_count>>
    ELSE IF ~timeBound
    THEN \* line 1234: NameError
         /\ mainPc' = "crashed"
         /\ processed_pages' = processed_pages + 1
         /\ UNCHANGED <<page_matches, page_found_count, page_filtered_count>>
    ELSE IF BudgetReached(final_all_protocols)
    THEN \* line 1251: break
         /\ mainPc' = "output"
         /\ processed_pages' = processed_pages + 1
         /\ UNCHANGED <<page_matches, page_found_count, page_filtered_count>>
    ELSE /\ mainPc' = "accept"
         /\ processed_pages' = processed_pages + 1
         /\ page_matches' =
                find_matches(text, ProtocolPatternsForMatching(categories_data))
         /\ page_found_count' = 0
         /\ page_filtered_count' = 0

\* the next page of fetched_pages
PageBegin ==
    /\ mainPc = "pages"
    /\ page_idx < Len(filtered_pages)
    /\ page_idx' = page_idx + 1
    /\ TakePage(filtered_pages[page_idx + 1].text)
    /\ UNCHANGED <<envVars, urls, categories_data, fetchVars, curCat, todo,
                   valid_configs, global_config_set, final_all_protocols,
                   final_configs_by_country, found_configs, filtered_out_configs,
                   written, skipped, rejected>>

\* fetched_pages is exhausted
LoopExit ==
    /\ mainPc = "pages"
    /\ page_idx = Len(filtered_pages)
    /\ mainPc' = "output"
    /\ UNCHANGED <<envVars, urls, categories_data, fetchVars, loopVars, aggVars,
                   written, skipped, rejected>>

\* line 1254-1257: the next entry of page_protocol_matches, in any order
CategoryBegin ==
    /\ mainPc = "accept"
    /\ curCat = ""
    /\ \E c \in DOMAIN page_matches :
         /\ page_matches' = [k \in DOMAIN page_matches \ {c} |-> page_matches[k]]
         /\ IF c \in ProtocolCategorySet
            THEN curCat' = c /\ todo' = page_matches[c] /\ valid_configs' = {}
            ELSE UNCHANGED <<curCat, todo, valid_configs>>
    /\ UNCHANGED <<envVars, mainPc, urls, categories_data, fetchVars, page_idx,
                   page_found_count, page_filtered_count, aggVars, written, skipped, rejected>>

\* should_filter_config is not asked
Admitted_NoFilter(config, seen) ==
    IF config \in seen THEN {} ELSE {config}

\* the membership test of 1260 is left out
Admitted_NoSeen(config, seen) ==
    IF ~should_filter_config(config) THEN {config} ELSE {}

\* lines 1260-1269 for one config: what is added to valid_configs and to
\* global_config_set
Admitted(config, seen) ==
    IF config \in seen THEN {}
    ELSE IF ~should_filter_config(config) THEN {config}
    ELSE {}

\* lines 1258-1269: one iteration of `for config in configs_found`
AcceptConfig ==
    /\ mainPc = "accept"
    /\ curCat # ""
    /\ \E config \in todo :
         LET add == Admitted(config, global_config_set) IN
         /\ todo' = todo \ {config}
         /\ valid_configs' = valid_configs \cup add
         /\ global_config_set' = global_config_set \cup add
         /\ page_found_count' = page_found_count + SumN(add)
         /\ page_filtered_count' =
                IF config \notin global_config_set /\ add = {}
                THEN page_filtered_count + config.n ELSE page_filtered_count
         /\ skipped' = IF config \in global_config_set
                       THEN skipped \cup {config} ELSE skipped
         /\ rejected' = IF config \notin global_config_set /\ add = {}
                        THEN rejected \cup {config} ELSE rejected
    /\ UNCHANGED <<envVars, mainPc, urls, categories_data, fetchVars, page_idx,
                   page_matches, curCat, final_all_protocols,
                   final_configs_by_country, found_configs, filtered_out_configs,
                   processed_pages, written>>

\* only the configs that carry a name join the category's set
UpdateProtocols_NamedOnly(protocols, cat, configs) ==
    [protocols EXCEPT ![cat] =
        @ \cup {c \in configs : ~(IF c.hasFrag THEN c.frag ELSE c.field).empty}]

\* the categories share one set object
UpdateProtocols_Shared(protocols, cat, configs) ==
    [c \in DOMAIN protocols |-> protocols[c] \cup configs]

\* the category's set is assigned, not updated
UpdateProtocols_Replace(protocols, cat, configs) ==
    [protocols EXCEPT ![cat] = configs]

\* line 1273: final_all_protocols[protocol_cat_name].update(valid_configs);
\* each category owns its set (1213)
UpdateProtocols(protocols, cat, configs) ==
    [protocols EXCEPT ![cat] = @ \cup configs]

\* lines 1271-1273: the category's valid_configs join its set
CategoryEnd ==
    /\ mainPc = "accept"
    /\ curCat # ""
    /\ todo = {}
    /\ final_all_protocols' =
           UpdateProtocols(final_all_protocols, curCat, valid_configs)
    /\ curCat' = ""
    /\ valid_configs' = {}
    /\ UNCHANGED <<envVars, mainPc, urls, categories_data, fetchVars, page_idx,
                   page_matches, todo, page_found_count, page_filtered_count,
                   global_config_set, final_configs_by_country, found_configs,
                   filtered_out_configs, processed_pages, written, skipped, rejected>>

PageAggregated ==
    mainPc = "accept" /\ curCat = "" /\ DOMAIN page_matches = {}

\* lines 1275-1291: the counters are updated; line 1291 then reads
\* unique_configs, which no statement of the module binds, and
\* all_page_configs_after_filter, a local of main not yet assigned:
\* NameError leaves main
PageEnd ==
    /\ PageAggregated
    /\ found_configs' = found_configs + page_found_count
    /\ filtered_out_configs' = filtered_out_configs + page_filtered_count
    /\ mainPc' = "crashed"
    /\ UNCHANGED <<envVars, urls, categories_data, fetchVars, loopVars,
                   global_config_set, final_all_protocols,
                   final_configs_by_country, processed_pages, written, skipped, rejected>>

---------------------------------------------------------------------------
(* The page loop as a function of the list of fetched pages: what the      *)
(* actions above leave in global_config_set and final_all_protocols when   *)
(* the loop is left.  `over` says that the loop has been left: by the      *)
(* break of 1251 or by the NameError of 1291.                              *)

LoopStart == [seen |-> {}, protocols |-> EmptyProtocols, over |-> FALSE]

\* lines 1254-1273 for a whole page
AggregatePage(st, text, cd) ==
    LET m == find_matches(text, ProtocolPatternsForMatching(cd))
        cats == DOMAIN m \cap ProtocolCategorySet
        fresh == [cat \in cats |->
                     {c \in m[cat] : c \notin st.seen /\ ~should_filter_config(c)}]
    IN [seen |-> st.seen \cup UNION {fresh[cat] : cat \in cats},
        protocols |-> [k \in DOMAIN st.protocols |->
                          IF k \in cats THEN st.protocols[k] \cup fresh[k]
                          ELSE st.protocols[k]],
        over |-> TRUE]

\* lines 1229-1291 for one page
PageStep(st, text, cd) ==
    IF st.over \/ IsEmptyStr(text) THEN st
    ELSE IF BudgetReached(st.protocols) THEN [st EXCEPT !.over = TRUE]
    ELSE AggregatePage(st, text, cd)

RECURSIVE RunPagesFrom(_, _, _)
RunPagesFrom(st, pages, cd) ==
    IF pages = <<>> THEN st
    ELSE RunPagesFrom(PageStep(st, Head(pages).text, cd), Tail(pages), cd)

RunPages(pages, cd) == RunPagesFrom(LoopStart, pages, cd)

\* the actions and the function agree whenever the loop has been left
PageLoopAgrees ==
    mainPc \in {"output", "crashed"} =>
        /\ final_all_protocols = RunPages(filtered_pages, categories_data).protocols
        /\ global_config_set = RunPages(filtered_pages, categories_data).seen

---------------------------------------------------------------------------
(* main(): output, lines 1394-1544 *)

NonEmpty(f) == [c \in {k \in DOMAIN f : f[k] # {}} |-> f[c]]

\* lines 1487-1526: every non-empty set goes to save_to_file; a protocol
\* set is cleared after it was saved (1502)
Output ==
    /\ mainPc = "output"
    /\ written' = NonEmpty(final_all_protocols) @@ NonEmpty(final_configs_by_country)
    /\ final_all_protocols' = EmptyProtocols
    /\ mainPc' = "done"
    /\ UNCHANGED <<envVars, urls, categories_data, fetchVars, loopVars,
                   global_config_set, final_configs_by_country, found_configs,
                   filtered_out_configs, processed_pages, skipped, rejected>>

Next ==
    \/ MainStart
    \/ StartBatch
    \/ \E t \in DOMAIN tasks : Acquire(t)
    \/ \E t \in DOMAIN tasks : SemAttempt(t)
    \/ \E t \in DOMAIN tasks : Wake(t)
    \/ CollectBatch
    \/ PageBegin
    \/ LoopExit
    \/ CategoryBegin
    \/ AcceptConfig
    \/ CategoryEnd
    \/ PageEnd
    \/ Output

Spec == Init /\ [][Next]_vars

---------------------------------------------------------------------------
(* A shutdown request: KeyboardInterrupt while asyncio.run(main()) runs,   *)
(* lines 1685-1738                                                         *)

\* the task raised CancelledError itself (it was not inside the try of
\* fetch_with_semaphore)
Cancelled == Result("cancelled", EmptyText)

\* what cancellation makes of a task: inside fetch_url the CancelledError
\* reaches line 1143 and the task returns (url, None); a task that waits at
\* `async with sem` is outside the try and ends cancelled
CancelTask(task) ==
    IF task.pc \in {"attempt", "sleep"}
    THEN [task EXCEPT !.pc = "done", !.result = Absent]
    ELSE IF task.pc = "queued"
    THEN [task EXCEPT !.pc = "done", !.result = Cancelled]
    ELSE task

\* asyncio.run cancels the tasks and the interrupt leaves main where it
\* stands (a build whose asyncio.run only requests the cancellation lets the
\* synchronous page loop run on instead, which is a behaviour of Next).
\* The except clause of 1691 logs, and the finally of 1732 runs
\* safe_cleanup, which finds no task left on its new loop; nothing calls
\* save_to_file.
Shutdown ==
    /\ mainPc \in {"fetch", "gather", "pause", "pages", "accept", "output"}
    /\ mainPc' = "interrupted"
    /\ tasks' = [j \in DOMAIN tasks |-> CancelTask(tasks[j])]
    /\ semValue' = semValue
           + Cardinality({j \in DOMAIN tasks : tasks[j].pc \in {"attempt", "sleep"}})
    /\ UNCHANGED <<envVars, urls, categories_data, history, last, batchStart,
                   filtered_pages, success_count, loopVars, aggVars, written,
                   skipped, rejected>>

ShutdownNext == Next \/ Shutdown

ShutdownSpec == Init /\ [][ShutdownNext]_vars

\* The event loop runs every task that can run, and every await of the run
\* ends: an attempt by its response or its timeout (534), a sleep by its
\* delay.
FairSpec == Spec /\ WF_vars(Next)

---------------------------------------------------------------------------
(* fetch_url called directly *)

UrlInputs ==
    { Url(TRUE, "http://", 1), Url(TRUE, "https://", 1), Url(TRUE, "ftp://", 1),
      Url(TRUE, "HTTP://", 1), Url(TRUE, "", 0), Url(FALSE, "", 0) }

\* what an attempt met, as far as the history keeps it
ResponseKind(r) ==
    IF r.kind # "http" THEN r.kind
    ELSE IF Is2xx(r) THEN "2xx"
    ELSE IF r.readOk /\ ~IsBlankStr(r.text) THEN "non2xx_body"
    ELSE "non2xx_nobody"

FetchInit ==
    /\ timeBound = TRUE
    /\ randomBound \in BOOLEAN
    /\ netProfile = "full"
    /\ inputs = "ok"
    /\ rawKeywords \in RawConfigs
    /\ urlCount = 0
    /\ mainPc = "direct"
    /\ urls = <<>>
    /\ categories_data = <<>>
    /\ \E url \in UrlInputs, mr \in 0..MaxRetriesArg : tasks = <<NewTask(url, mr)>>
    /\ semValue = 0
    /\ final_configs_by_country = <<>>
    /\ InitCommon

\* fetch_url(session, url, max_retries) is called
Call(t) ==
    /\ mainPc = "direct"
    /\ tasks[t].pc = "new"
    /\ tasks' = [tasks EXCEPT ![t] = FetchUrlEntry(tasks[t])]
    /\ history' = [i \in DOMAIN tasks |-> <<>>]
    /\ last' = [i \in DOMAIN tasks |-> NoResponse]
    /\ UNCHANGED <<envVars, mainPc, urls, categories_data, semValue, batchStart,
                   filtered_pages, success_count, loopVars, aggVars, written, skipped, rejected>>

\* one attempt of a direct call
CallAttempt(t) ==
    /\ mainPc = "direct"
    /\ tasks[t].pc = "attempt"
    /\ \E r \in Responses(netProfile) :
         /\ tasks' = [tasks EXCEPT ![t] = FetchUrlAttempt(tasks[t], r, randomBound)]
         /\ history' = [history EXCEPT ![t] = Append(@, ResponseKind(r))]
         /\ last' = [last EXCEPT ![t] = r]
    /\ UNCHANGED <<envVars, mainPc, urls, categories_data, semValue, batchStart,
                   filtered_pages, success_count, loopVars, aggVars, written, skipped, rejected>>

FetchNext ==
    \/ \E t \in DOMAIN tasks : Call(t)
    \/ \E t \in DOMAIN tasks : CallAttempt(t)
    \/ \E t \in DOMAIN tasks : Wake(t)

FetchSpec == FetchInit /\ [][FetchNext]_vars

---------------------------------------------------------------------------
(* the page loop fed with pages *)

AggInit ==
    /\ timeBound \in BOOLEAN
    /\ randomBound = TRUE
    /\ netProfile = "basic"
    /\ inputs = "ok"
    /\ rawKeywords \in RawConfigs
    /\ urlCount = 0
    /\ mainPc = "pages"
    /\ urls = <<>>
    /\ categories_data = ValidCategoriesData(rawKeywords)
    /\ tasks = <<>>
    /\ semValue = 0
    /\ final_configs_by_country = EmptyCountries(categories_data)
    /\ InitCommon

\* the loop takes a page
AggPageBegin ==
    /\ mainPc = "pages"
    /\ page_idx < MaxPages
    /\ page_idx' = page_idx + 1
    /\ \E text \in PageTexts \cup {EmptyText} : TakePage(text)
    /\ UNCHANGED <<envVars, urls, categories_data, fetchVars, curCat, todo,
                   valid_configs, global_config_set, final_all_protocols,
                   final_configs_by_country, found_configs, filtered_out_configs,
                   written, skipped, rejected>>

\* lines 1275-1276, and the loop goes on to its next page
AggPageEnd ==
    /\ PageAggregated
    /\ found_configs' = found_configs + page_found_count
    /\ filtered_out_configs' = filtered_out_configs + page_filtered_count
    /\ mainPc' = "pages"
    /\ UNCHANGED <<envVars, urls, categories_data, fetchVars, loopVars,
                   global_config_set, final_all_protocols,
                   final_configs_by_country, processed_pages, written, skipped, rejected>>

AggNext ==
    \/ AggPageBegin
    \/ CategoryBegin
    \/ AcceptConfig
    \/ CategoryEnd
    \/ AggPageEnd

AggSpec == AggInit /\ [][AggNext]_vars

---------------------------------------------------------------------------
(* Claims *)

\* the protocol categories that hold config c
CategoriesOf(c) == {cat \in DOMAIN final_all_protocols : c \in final_all_protocols[cat]}

AllAccepted == UNION {final_all_protocols[cat] : cat \in DOMAIN final_all_protocols}

\* the categories of keywords.json with a pattern that captures config c
CapturedUnder(c) ==
    {cat \in DOMAIN categories_data :
        \E i \in 1..Len(categories_data[cat]) :
            CustomFindall(categories_data[cat][i], TextOf({c})) # {}}

\* between two pages of the loop, or after it
AtPageBoundary == mainPc \in {"pages", "output"}

\* C1: protocol exclusivity.  Whenever the loop stands between two pages,
\* every accepted link (every member of global_config_set and of any
\* protocol set) is in exactly one protocol set, also when patterns of
\* several categories capture it and when several pages hold it.
C1_ProtocolExclusivity ==
    AtPageBoundary =>
        \A c \in global_config_set \cup AllAccepted : Cardinality(CategoriesOf(c)) = 1

\* two pages are done, and an accepted link is captured by the patterns of
\* two categories and was met again on the later page
C1_Witness ==
    /\ mainPc = "pages"
    /\ page_idx = 2
    /\ \E c \in global_config_set :
         Cardinality(CapturedUnder(c)) >= 2 /\ c \in skipped

\* C2: dedup idempotence.  A step of the config loop whose config is already
\* in global_config_set changes neither the index nor any protocol set nor
\* valid_configs nor the count of found configs.
C2_DedupIdempotence ==
    [][\A c \in todo \ todo' :
          c \in global_config_set =>
             /\ global_config_set' = global_config_set
             /\ final_all_protocols' = final_all_protocols
             /\ valid_configs' = valid_configs
             /\ page_found_count' = page_found_count]_vars

\* a link was submitted again, the page is done, and the link is held once
\* and counted once
C2_Witness ==
    /\ mainPc = "pages"
    /\ skipped # {}
    /\ \A c \in skipped : Cardinality(CategoriesOf(c)) = 1
    /\ found_configs = SumN(global_config_set)

C4_FetchResilience ==
    \A t \in DOMAIN history :
        (/\ history[t] = <<"timeout", "timeout", "2xx">>
         /\ last[t].readOk
         /\ last[t].clen <= MAX_PAGE_SIZE
         /\ last[t].bodyChars <= MAX_PAGE_SIZE)
        => /\ tasks[t].pc = "done"
           /\ tasks[t].result = Result("content", last[t].text)
           /\ tasks[t].delays = 2

\* every attempt of the task failed and the call is over
Exhausted(t) ==
    /\ tasks[t].pc = "done"
    /\ tasks[t].attempts >= 1
    /\ tasks[t].result.kind = "absent"

FetchPhaseOver == mainPc \notin {"start", "fetch", "gather", "pause"}

\* C5, as claimed: when every attempt of a URL failed, the URL has no page,
\* the run is not aborted, every other URL has been fetched when the fetch
\* phase is over, and when the run ends every fetched page has been taken
\* by the page loop.
C5_FailedUrlNeverAborts ==
    \A t \in DOMAIN tasks :
        Exhausted(t) =>
            /\ \A i \in 1..Len(filtered_pages) : filtered_pages[i].url # tasks[t].url
            /\ mainPc # "crashed"
            /\ FetchPhaseOver => \A u \in DOMAIN tasks : tasks[u].pc = "done"
            /\ mainPc = "done" => page_idx = Len(filtered_pages)

InFlight == {t \in DOMAIN tasks : tasks[t].pc \in {"attempt", "sleep"}}

\* URL counts for which the cap formula is evaluated
CapCheckUrls == 250

\* C6: concurrency cap.  The fetch_url calls in flight never outnumber the
\* cap computed from the URL count, the semaphore never goes below zero, and
\* the cap is at most CONCURRENT_REQUESTS for every URL count.
C6_ConcurrencyCap ==
    /\ Cardinality(InFlight) <= DynamicConcurrency(Len(urls))
    /\ semValue >= 0
    /\ \A n \in 0..CapCheckUrls : DynamicConcurrency(n) <= CONCURRENT_REQUESTS

\* the cap is reached while a task of the batch still waits for a permit
C6_Witness ==
    /\ Cardinality(InFlight) = DynamicConcurrency(Len(urls))
    /\ semValue = 0
    /\ \E t \in DOMAIN tasks : tasks[t].pc = "queued"

\* C7: bounded retry.  No call makes more than max_retries + 1 attempts,
\* and a fetch phase that has started ends with every call over.
C7_BoundedRetry ==
    /\ [](\A t \in DOMAIN tasks : tasks[t].attempts <= tasks[t].max_retries + 1)
    /\ (mainPc = "fetch") ~>
         (FetchPhaseOver /\ \A t \in DOMAIN tasks : tasks[t].pc = "done")

\* the fetch phase is over and a call used all its attempts
C7_Witness ==
    /\ FetchPhaseOver
    /\ \E t \in DOMAIN tasks :
         /\ tasks[t].attempts = tasks[t].max_retries + 1
         /\ tasks[t].delays = tasks[t].max_retries
         /\ tasks[t].pc = "done"

\* the url is empty, not a string, or starts with neither http:// nor https://
RejectedUrl(url) ==
    \/ ~url.str
    \/ url.scheme = ""
    \/ (url.scheme # "http://" /\ url.scheme # "https://")

\* C8: a call with such a url is over at once with (url, None): no attempt,
\* no retry, no delay.
C8_InvalidUrlRejected ==
    \A t \in DOMAIN tasks :
        (RejectedUrl(tasks[t].url) /\ tasks[t].pc # "new") =>
            /\ tasks[t].pc = "done"
            /\ tasks[t].result = Absent
            /\ tasks[t].attempts = 0
            /\ tasks[t].retry_count = 0
            /\ tasks[t].delays = 0

C8_Witness ==
    \E t \in DOMAIN tasks :
        /\ tasks[t].url = Url(TRUE, "ftp://", 1)
        /\ tasks[t].pc = "done"

NonSuccess(r) == r.kind = "http" /\ ~(r.status >= 200 /\ r.status < 300)
UsableBody(r) == r.readOk /\ r.text.chars = "text"

ExceedsCeiling(r) ==
    r.kind = "http" /\ (r.clen > MAX_PAGE_SIZE \/ r.bodyChars > MAX_PAGE_SIZE)

\* C10, as claimed: a call whose latest response exceeds MAX_PAGE_SIZE, by
\* its Content-Length or by its body, never ends with content.
C10_OversizeAbandoned ==
    \A t \in DOMAIN history :
        ExceedsCeiling(last[t]) => tasks[t].result.kind # "content"

\* C10, amended: a 2xx response whose Content-Length is above MAX_PAGE_SIZE
\* ends the call at once with (url, None): no retry is counted for it and no
\* text of it is kept.
C10_DeclaredOversizeAbandoned ==
    \A t \in DOMAIN history :
        (/\ last[t].kind = "http"
         /\ last[t].status >= 200 /\ last[t].status < 300
         /\ last[t].clen > MAX_PAGE_SIZE)
        => /\ tasks[t].pc = "done"
           /\ tasks[t].result = Absent
           /\ tasks[t].retry_count = tasks[t].attempts - 1

\* the second attempt of a call met such a response
C10_Witness ==
    \E t \in DOMAIN history :
        /\ Len(history[t]) = 2
        /\ last[t].status = 200
        /\ last[t].clen > MAX_PAGE_SIZE
        /\ tasks[t].pc = "done"

\* the string holds the blocked phrase, in whatever case
ContainsPhrase(c) == c.phrase # ""

\* C11: filter correctness.  should_filter_config rejects every string that
\* holds the blocked phrase in any case, and no member of the dedup index,
\* of a protocol set or of a country set holds it.
C11_FilterCorrectness ==
    /\ \A c \in LinkUniverse : ContainsPhrase(c) => should_filter_config(c)
    /\ \A c \in global_config_set \cup valid_configs : ~ContainsPhrase(c)
    /\ \A k \in DOMAIN final_all_protocols :
           \A c \in final_all_protocols[k] : ~ContainsPhrase(c)
    /\ \A k \in DOMAIN final_configs_by_country :
           \A c \in final_configs_by_country[k] : ~ContainsPhrase(c)

\* a candidate with an otherwise valid structure and the phrase in mixed
\* case went through the accept loop and was rejected
C11_Witness ==
    /\ mainPc = "pages"
    /\ \E c \in rejected :
          /\ c.phrase = "I_Love_"
          /\ c.hasAt /\ c.scheme = "trojan://"
    /\ AllAccepted # {}

\* C12: frame of accepting one candidate.  A candidate that is already in
\* the dedup index, or that the filter rejects, leaves the index, the
\* protocol sets, the country sets and the pending valid_configs as they
\* were; a new candidate that passes the filter enters the index and the
\* valid_configs of its category, and these join that category's set, and
\* no other, when the category's candidates are done.  The index changes at
\* no other step.
C12_AcceptFrame ==
    [][/\ \A c \in todo \ todo' :
            IF c \in global_config_set \/ should_filter_config(c)
            THEN /\ global_config_set' = global_config_set
                 /\ valid_configs' = valid_configs
                 /\ final_all_protocols' = final_all_protocols
                 /\ final_configs_by_country' = final_configs_by_country
            ELSE /\ global_config_set' = global_config_set \cup {c}
                 /\ valid_configs' = valid_configs \cup {c}
                 /\ final_configs_by_country' = final_configs_by_country
       /\ (curCat # "" /\ curCat' = "") =>
            /\ \A k \in DOMAIN final_all_protocols :
                  final_all_protocols'[k] =
                      IF k = curCat THEN final_all_protocols[k] \cup valid_configs
                      ELSE final_all_protocols[k]
            /\ valid_configs \subseteq global_config_set
       /\ (todo \ todo' = {}) => global_config_set' = global_config_set
      ]_vars

\* pages are done on which a candidate was new and accepted, one was
\* rejected by the filter and one was already in the index
C12_Witness ==
    /\ mainPc = "pages"
    /\ found_configs >= 1
    /\ filtered_out_configs >= 1
    /\ rejected # {}
    /\ skipped # {}

\* main has returned or an exception has left it
RunEnded == mainPc \in {"done", "crashed", "aborted"}

\* the name a link is classified by: the text after '#' when there is one,
\* otherwise the name of the protocol-specific field
LabelOf(c) == IF c.hasFrag THEN c.frag ELSE c.field

\* one keyword against a name: a keyword of 2 or 3 upper-case letters must
\* be a whole word of the name, any other keyword a substring of it
KeywordMatches(kw, name) ==
    /\ ~name.empty
    /\ IF kw.abbrev THEN Lower(kw.kw) \in name.tokens
       ELSE Lower(kw.kw) \in name.subs

\* the name of c matches a keyword of country K
LabelMatches(K, c) ==
    \E i \in 1..Len(categories_data[K]) :
        KeywordMatches(categories_data[K][i], LabelOf(c))

\* C13, as claimed: token-vs-substring policy.  When the run has ended, an
\* accepted link is in the set of a country whose only keyword is an
\* abbreviation exactly when that keyword is a whole word of the link's name.
C13_TokenPolicy ==
    RunEnded =>
        \A K \in DOMAIN final_configs_by_country :
            (Len(categories_data[K]) = 1 /\ categories_data[K][1].abbrev) =>
                \A c \in global_config_set :
                    (c \in final_configs_by_country[K])
                        <=> (~LabelOf(c).empty
                             /\ Lower(categories_data[K][1].kw) \in LabelOf(c).tokens)

\* C14, as claimed: multi-country tagging.  When the run has ended, an
\* accepted link whose name matches keywords of two countries is in the
\* sets of both.
C14_MultiCountry ==
    RunEnded =>
        \A A \in DOMAIN final_configs_by_country :
            \A B \in DOMAIN final_configs_by_country \ {A} :
                \A c \in global_config_set :
                    (LabelMatches(A, c) /\ LabelMatches(B, c)) =>
                        /\ c \in final_configs_by_country[A]
                        /\ c \in final_configs_by_country[B]

\* the page loop is over, by its end, by break or by an exception
PageProcessingEnded == mainPc \in {"output", "done", "crashed"}

\* C15, as claimed: when page processing has ended, a link is in the set of
\* country K exactly when it is in a protocol set and its name matches a
\* keyword of K.
C15_CountryIff ==
    PageProcessingEnded =>
        \A K \in DOMAIN final_configs_by_country :
            \A c \in LinkUniverse :
                (c \in final_configs_by_country[K])
                    <=> (c \in AllAccepted /\ LabelMatches(K, c))

\* the link has no name, or its name matches no keyword of any country
Unclassifiable(c) ==
    \/ LabelOf(c).empty
    \/ \A K \in DOMAIN final_configs_by_country : ~LabelMatches(K, c)

\* C16: protocol membership does not depend on the label.  An accepted link
\* without a name, or whose name matches no country keyword, is in the set
\* of its own protocol category, or waits in that category's valid_configs
\* to join it, and is in no country set.
C16_LabelIndependence ==
    \A c \in global_config_set :
        Unclassifiable(c) =>
            /\ \/ c \in valid_configs /\ curCat # ""
               \/ /\ Cardinality(CategoriesOf(c)) = 1
                  /\ \A cat \in CategoriesOf(c) :
                        c.scheme \in Range(PROTOCOL_PREFIXES[Lower(cat)])
            /\ \A K \in DOMAIN final_configs_by_country :
                  c \notin final_configs_by_country[K]

\* the page's protocol sets are filled; one accepted link has no name and
\* another has a name that matches none of the configured country keywords
C16_Witness ==
    /\ PageAggregated
    /\ DOMAIN final_configs_by_country # {}
    /\ \E c \in AllAccepted : LabelOf(c).empty
    /\ \E c \in AllAccepted :
          /\ ~LabelOf(c).empty
          /\ \A K \in DOMAIN final_configs_by_country : ~LabelMatches(K, c)

\* C17, as claimed: an error while a page is processed is absorbed.  Once
\* the page loop has taken a page no exception leaves main, and when the
\* run has ended every fetched page has been taken and the output stage has
\* been reached.
C17_ErrorsAbsorbed ==
    /\ processed_pages >= 1 => mainPc # "crashed"
    /\ (RunEnded /\ Len(filtered_pages) >= 1) =>
           /\ page_idx = Len(filtered_pages)
           /\ mainPc = "done"

\* the name in the text after '#' matches a keyword of country K
FragmentMatches(K, c) ==
    \E i \in 1..Len(categories_data[K]) :
        KeywordMatches(categories_data[K][i], c.frag)

\* C18, as claimed: fragment priority.  When the run has ended, an accepted
\* link with a '#' is in the set of country K exactly when the text after
\* the '#' matches a keyword of K, whatever its protocol-specific name is.
C18_FragmentPriority ==
    RunEnded =>
        \A c \in global_config_set :
            c.hasFrag =>
                \A K \in DOMAIN final_configs_by_country :
                    (c \in final_configs_by_country[K]) <=> FragmentMatches(K, c)

\* vless://abc#GermanyNode
VlessGermanyNode == CHOOSE l \in LinkUniverse : l.id = 2

\* C19, as claimed: the end-to-end scenario.  With the keyword file
\* {"Vless": [], "Germany": ["DE", "Germany"]} and one URL whose fetched
\* text holds vless://abc#GermanyNode, the run ends with that link as the
\* only member of Vless and of Germany.
C19_EndToEnd ==
    (/\ RunEnded
     /\ rawKeywords = VlessEmptyGermany
     /\ Len(filtered_pages) = 1
     /\ filtered_pages[1].text = TextOf({VlessGermanyNode}))
    => /\ \/ final_all_protocols["Vless"] = {VlessGermanyNode}
          \/ ("Vless" \in DOMAIN written /\ written["Vless"] = {VlessGermanyNode})
       /\ final_configs_by_country["Germany"] = {VlessGermanyNode}

\* the protocol category is missing from keywords.json or has an empty list
NotConfigured(P) ==
    \/ P \notin DOMAIN rawKeywords
    \/ rawKeywords[P].isList /\ rawKeywords[P].items = <<>>

\* C20, as claimed: built-in patterns still apply.  When the aggregation of
\* a page is over, every link of the page text that starts with a prefix of
\* a protocol that is not configured has been a candidate: it was accepted,
\* rejected by the filter, or found in the dedup index.
C20_BuiltinsApplied ==
    (PageAggregated /\ page_idx >= 1) =>
        \A P \in ProtocolCategorySet :
            NotConfigured(P) =>
                \A l \in filtered_pages[page_idx].text.links :
                    l.scheme \in Range(PROTOCOL_PREFIXES[Lower(P)]) =>
                        l \in global_config_set \cup rejected \cup skipped

\* as many records are accepted as the run budget allows
BudgetSpent == SumN(global_config_set) >= MAX_TOTAL_CONFIGS

C22_MalformedInputAborts ==
    inputs # "ok" =>
        /\ tasks = <<>>
        /\ semValue = 0
        /\ filtered_pages = <<>>
        /\ mainPc \in {"start", "aborted", "crashed"}

\* a run with URLs to fetch and a keywords.json that is not a mapping has
\* returned from main
C22_Witness ==
    /\ inputs = "not_dict"
    /\ timeBound
    /\ urlCount >= 1
    /\ mainPc = "aborted"

\* C23, as claimed: shutdown.  After a shutdown request no fetch task is
\* left running or holding a permit, and the records accumulated up to the
\* request are kept as a result: each was handed to save_to_file.
C23_ShutdownKeepsResults ==
    mainPc = "interrupted" =>
        /\ \A t \in DOMAIN tasks : tasks[t].pc \in {"new", "done"}
        /\ semValue = DynamicConcurrency(Len(urls))
        /\ \A c \in global_config_set :
              \E cat \in DOMAIN written : c \in written[cat]

Reverse(seq) == [i \in 1..Len(seq) |-> seq[Len(seq) + 1 - i]]

\* C24, as claimed: page-order commutativity.  When the page loop has been
\* left, the protocol sets and the dedup index are the ones the same pages
\* give when they are processed in the reverse order.
C24_PageOrderCommutes ==
    (mainPc \in {"output", "crashed"} /\ timeBound) =>
        /\ final_all_protocols =
               RunPages(Reverse(filtered_pages), categories_data).protocols
        /\ global_config_set =
               RunPages(Reverse(filtered_pages), categories_data).seen

\* the pages a single batch holding all URLs hands to the page loop, given
\* the outcome every URL's task ended with
SingleBatchPages == PagesOf(tasks, 1, Len(urls))

\* C25: batch grouping does not affect results.  Between batches the pages
\* collected are the ones of the URLs of the batches done, in URL order;
\* when the fetch phase is over every task is over and the pages handed to
\* the page loop are the ones a single batch of all URLs gives for the same
\* outcomes; and the sets the page loop is left with are those of that list.
C25_BatchGrouping ==
    /\ mainPc \in {"fetch", "gather", "pause"} =>
           filtered_pages = PagesOf(tasks, 1, batchStart)
    /\ mainPc \in {"pages", "accept", "output", "done", "crashed"} =>
           /\ \A j \in DOMAIN tasks : tasks[j].pc = "done"
           /\ filtered_pages = SingleBatchPages
    /\ mainPc \in {"output", "crashed"} =>
           final_all_protocols = RunPages(SingleBatchPages, categories_data).protocols

\* a run of several batches has handed pages of more than one batch to the
\* page loop
C25_Witness ==
    /\ mainPc = "pages"
    /\ batchStart >= 2 * BatchSize(Len(urls))
    /\ \E i \in 1..Len(filtered_pages) :
          \E j \in 1..Len(filtered_pages) :
              /\ filtered_pages[i].url.host <= BatchSize(Len(urls))
              /\ filtered_pages[j].url.host > BatchSize(Len(urls))

\* the latest attempt got a 2xx response and read its body, within the size
\* ceiling
ReadSuccess(r) ==
    /\ r.kind = "http"
    /\ r.status >= 200 /\ r.status < 300
    /\ r.readOk
    /\ r.clen <= MAX_PAGE_SIZE
    /\ r.bodyChars <= MAX_PAGE_SIZE

\* C26, as claimed: a call whose latest attempt got a 2xx response and read
\* its body is over with (url, content), with no retry counted and no delay
\* served for that attempt; and a call that is over has served fewer delays
\* than it made attempts.
C26_RetryOnlyAfterFailure ==
    \A t \in DOMAIN history :
        /\ ReadSuccess(last[t]) =>
               /\ tasks[t].pc = "done"
               /\ tasks[t].result = Result("content", last[t].text)
               /\ tasks[t].retry_count = tasks[t].attempts - 1
               /\ tasks[t].delays = tasks[t].attempts - 1
        /\ (tasks[t].pc = "done" /\ tasks[t].attempts >= 1) =>
               tasks[t].delays < tasks[t].attempts

\* no fetch_url call is anywhere between its creation and its end
NoFetchRunning == \A t \in DOMAIN tasks : tasks[t].pc \in {"new", "done"}

\* the page the loop stands in is aggregated to its end
PageSettled ==
    curCat = "" /\ todo = {} /\ valid_configs = {} /\ DOMAIN page_matches = {}

\* C27: single writer.  A step that changes the dedup index or a category
\* set is a step of main's sequential stage taken while no fetch is running,
\* and it changes no task; what it adds to the index or to a protocol set is
\* a link of the page the loop stands in; and the loop moves to the next
\* page only when the page before it is aggregated to its end.
C27_SingleWriter ==
    [][/\ (\/ global_config_set' # global_config_set
           \/ final_all_protocols' # final_all_protocols
           \/ final_configs_by_country' # final_configs_by_country) =>
              /\ NoFetchRunning
              /\ tasks' = tasks
              /\ mainPc \in {"gather", "accept", "output"}
       /\ (mainPc # "output" /\
           (\/ global_config_set' # global_config_set
            \/ final_all_protocols' # final_all_protocols)) =>
              /\ page_idx' = page_idx
              /\ page_idx \in 1..Len(filtered_pages)
              /\ \A c \in (global_config_set' \ global_config_set)
                          \cup UNION {final_all_protocols'[k] \ final_all_protocols[k] :
                                        k \in DOMAIN final_all_protocols} :
                     c \in filtered_pages[page_idx].text.links
       /\ page_idx' # page_idx => PageSettled]_vars

\* every URL of a two-URL run was fetched, and links of a page are in the
\* index and in a protocol set
C27_Witness ==
    /\ Len(tasks) = 2
    /\ \A t \in DOMAIN tasks : tasks[t].pc = "done" /\ tasks[t].attempts >= 1
    /\ mainPc = "accept"
    /\ global_config_set # {}
    /\ \E k \in DOMAIN final_all_protocols : final_all_protocols[k] # {}

\* the prefixes registered for protocol category P, and those of the others
OwnPrefixes(P) == Range(PROTOCOL_PREFIXES[Lower(P)])
ForeignPrefixes(P) ==
    UNION {Range(PROTOCOL_PREFIXES[k]) : k \in DOMAIN PROTOCOL_PREFIXES \ {Lower(P)}}

\* C28: prefix consistency.  Every member of the set of protocol category
\* P, and every link waiting in valid_configs to join it, begins with one of
\* the prefixes registered for P and with no prefix of another protocol,
\* whichever pattern captured it.
C28_PrefixConsistency ==
    \A P \in DOMAIN final_all_protocols :
        \A c \in final_all_protocols[P] \cup (IF curCat = P THEN valid_configs ELSE {}) :
            /\ c.scheme \in OwnPrefixes(P)
            /\ c.scheme \notin ForeignPrefixes(P)

\* a pattern of one protocol category captures an accepted link of another
\* protocol, and the link is in the set of its own protocol only
C28_Witness ==
    /\ mainPc = "pages"
    /\ \E c \in AllAccepted :
         \E P \in CapturedUnder(c) \cap ProtocolCategorySet :
             /\ c.scheme \notin OwnPrefixes(P)
             /\ c \notin final_all_protocols[P]

\* C29: aggregation accounting.  Whenever the loop stands between two
\* pages the dedup index is the union of the protocol sets and found_configs
\* is its size; within a page the index is that union together with the
\* pending valid_configs; and no step of the loop takes a link out of the
\* index, out of a protocol set or out of a country set, or lowers
\* found_configs.
C29_AggregationAccounting ==
    /\ [](/\ AtPageBoundary =>
               /\ global_config_set = AllAccepted
               /\ found_configs = SumN(global_config_set)
          /\ global_config_set = AllAccepted \cup valid_configs)
    /\ [][/\ global_config_set \subseteq global_config_set'
          /\ \A k \in DOMAIN final_all_protocols :
                final_all_protocols[k] \subseteq final_all_protocols'[k]
          /\ DOMAIN final_configs_by_country' = DOMAIN final_configs_by_country
          /\ \A k \in DOMAIN final_configs_by_country :
                final_configs_by_country[k] \subseteq final_configs_by_country'[k]
          /\ found_configs' >= found_configs]_vars

\* two pages are done, each added links to the index, and two protocol sets
\* hold links
C29_Witness ==
    /\ mainPc = "pages"
    /\ page_idx = 2
    /\ page_found_count >= 1
    /\ found_configs > page_found_count
    /\ Cardinality({k \in DOMAIN final_all_protocols : final_all_protocols[k] # {}}) >= 2

\* the permits of the semaphore of line 1131
Permits == DynamicConcurrency(Len(urls))

\* C30: permit accounting.  Once the semaphore exists, the permits out are
\* one for each fetch_url call between its entry and its end (attempts,
\* retries and backoff sleeps included) and none for any other task,
\* whatever way the calls ended: with content, exhausted, by an exception
\* or by cancellation.  When the batch has been gathered, and after a
\* shutdown request, every permit is free; and a batch is started only when
\* every permit is free and no task of an earlier batch is still running.
C30_PermitAccounting ==
    /\ [](urls # <<>> =>
            /\ semValue + Cardinality(InFlight) = Permits
            /\ mainPc \notin {"fetch", "gather"} =>
                   (InFlight = {} /\ semValue = Permits))
    /\ [][(mainPc \in {"fetch", "pause"} /\ mainPc' = "gather") =>
             /\ semValue = Permits
             /\ \A t \in DOMAIN tasks : tasks[t].pc \in {"new", "done"}
             /\ \A t \in DOMAIN tasks : t <= batchStart <=> tasks[t].pc = "done"]_vars

\* a shutdown request met one call that had ended with content and one that
\* was still retrying: both permits are back
C30_Witness ==
    /\ mainPc = "interrupted"
    /\ timeBound /\ randomBound
    /\ semValue = Permits
    /\ \E t \in DOMAIN tasks :
          /\ tasks[t].pc = "done"
          /\ tasks[t].result.kind = "content"
    /\ \E t \in DOMAIN tasks :
          /\ tasks[t].pc = "done"
          /\ tasks[t].result = Absent
          /\ tasks[t].attempts >= 1
          /\ tasks[t].delays >= 1
          /\ tasks[t].retry_count <= tasks[t].max_retries

====
